---- MODULE Spec2Model ----
(***************************************************************************)
(* TV -> Bark relay (src/app.py): the /tv-webhook and /test handlers, the  *)
(* ticker normaliser, the Eastmoney name lookup and the Bark delivery.     *)
(*                                                                         *)
(* A Python str is a sequence of one-character strings.  Characters that   *)
(* are not ASCII in the source are written as ASCII tokens: "GREEN" and    *)
(* "RED" are the coloured circles, "BOLD_B" and "BOLD_S" the bold letters, *)
(* "TIME", "PERIOD" and "STRATEGY" the labels of the body with their colon, *)
(* "SIGNAL" and "TEST_PUSH" the two fixed bodies.                          *)
(* A value that may be None, a str or a number is a record with a field t. *)
(* The module-level statements of app.py are taken to have run: the        *)
(* application exists and its routes are registered.                       *)
(*                                                                         *)
(* The handlers share no mutable state (BARK_KEY and BARK_SERVER are read  *)
(* only), so interleaved handlers behave as some sequence of handlers; the *)
(* model runs one handler at a time and suspends it at each outbound HTTP  *)
(* call, where the remote service answers or the timeout of the call ends  *)
(* it.                                                                     *)
(***************************************************************************)
EXTENDS Integers, Sequences, FiniteSets, TLC

VARIABLES
    BARK_KEY,     \* app.py:16   os.environ.get("BARK_KEY")
    pc,           \* position of the handler: idle, lookup_wait, bark_wait, done
    req,          \* the inbound request: route, body kind and its fields
    code,         \* build_name_code: code
    name,         \* build_name_code: name
    name_code,    \* handler local name_code
    price_text,   \* handler local price_text
    title,        \* handler local title
    body,         \* handler local body
    net,          \* the outbound HTTP call in flight
    lookup_resp,  \* what requests.get gave fetch_stock_name_from_eastmoney
    bark_resp,    \* what requests.get gave send_bark
    result,       \* send_bark's return value
    response,     \* the handler's HTTP response
    lookupCalls,  \* requests.get calls made by fetch_stock_name_from_eastmoney in this request
    barkCalls,    \* requests.get calls made by send_bark in this request
    resolved,     \* the latest earlier request's successful remote resolution
    nraw,         \* normalize_ticker: argument raw_ticker
    ncode,        \* normalize_ticker: return value
    npc           \* normalize_ticker: called or returned

hvars == <<BARK_KEY, pc, req, code, name, name_code, price_text, title, body, net,
           lookup_resp, bark_resp, result, response, lookupCalls, barkCalls, resolved>>
nvars == <<nraw, ncode, npc>>
vars == <<hvars, nvars>>

\* Bound of the model: the longest run of characters between the prefix and the
\* suffix of a raw ticker given to normalize_ticker.
MaxLen == 7

-----------------------------------------------------------------------------
(* Python values and str methods *)

None == [t |-> "none"]
Str(s) == [t |-> "str", s |-> s]
Num(c) == [t |-> "num", cents |-> c]     \* a float, held in cents
PyInt(n) == [t |-> "int", n |-> n]

\* bool(v) of a None / str / number value
Truthy(v) == CASE v.t = "none" -> FALSE
               [] v.t = "str"  -> v.s # <<>>
               [] v.t = "num"  -> v.cents # 0
               [] v.t = "int"  -> v.n # 0

Digits == {"0", "1", "2", "3", "4", "5", "6", "7", "8", "9"}

\* str.isdigit of one character
IsDigitCh(ch) == ch \in Digits

\* str.isdigit: non-empty and every character a digit
IsDigitStr(s) == s # <<>> /\ \A i \in 1..Len(s) : IsDigitCh(s[i])

\* str.upper of one character, over the letters the inputs use
UpperCh(ch) == CASE ch = "s" -> "S"
                 [] ch = "h" -> "H"
                 [] ch = "z" -> "Z"
                 [] ch = "x" -> "X"
                 [] ch = "b" -> "B"
                 [] ch = "u" -> "U"
                 [] ch = "y" -> "Y"
                 [] ch = "e" -> "E"
                 [] ch = "l" -> "L"
                 [] OTHER    -> ch

Upper(s) == [i \in 1..Len(s) |-> UpperCh(s[i])]

IsSpaceCh(ch) == ch = " "

RECURSIVE LStrip(_)
LStrip(s) == IF s # <<>> /\ IsSpaceCh(Head(s)) THEN LStrip(Tail(s)) ELSE s

RECURSIVE RStrip(_)
RStrip(s) == IF s # <<>> /\ IsSpaceCh(s[Len(s)]) THEN RStrip(SubSeq(s, 1, Len(s) - 1)) ELSE s

\* str.strip()
Strip(s) == RStrip(LStrip(s))

\* s.endswith(suf)
EndsWith(s, suf) ==
    /\ Len(suf) <= Len(s)
    /\ SubSeq(s, Len(s) - Len(suf) + 1, Len(s)) = suf

\* s.split(":")[-1] when ":" in s, else s
AfterLastColon(s) ==
    LET cols == {i \in 1..Len(s) : s[i] = ":"}
    IN  IF cols = {} THEN s
        ELSE LET last == CHOOSE i \in cols : \A j \in cols : j <= i
             IN  SubSeq(s, last + 1, Len(s))

\* one pass of the loop body: if s.endswith(suf): s = s[:-len(suf)]
DropSuffix(s, suf) == IF EndsWith(s, suf) THEN SubSeq(s, 1, Len(s) - Len(suf)) ELSE s

SUF_SZ  == <<".", "S", "Z">>
SUF_SH  == <<".", "S", "H">>
SUF_SS  == <<".", "S", "S">>
SUF_CSI == <<".", "C", "S", "I">>

\* for suf in (".SZ", ".SH", ".SS", ".CSI"): ...   (each suffix tried once, in order)
DropSuffixes(s) == DropSuffix(DropSuffix(DropSuffix(DropSuffix(s, SUF_SZ), SUF_SH), SUF_SS), SUF_CSI)

\* "".join(ch for ch in s if ch.isdigit())
KeepDigits(s) == SelectSeq(s, IsDigitCh)

\* normalize_ticker(raw_ticker) for a str argument
normalize_ticker(raw_ticker) ==
    IF raw_ticker = <<>> THEN <<>>
    ELSE KeepDigits(DropSuffixes(AfterLastColon(Upper(Strip(raw_ticker)))))

-----------------------------------------------------------------------------
(* format_price *)

DigitSeq == <<"0", "1", "2", "3", "4", "5", "6", "7", "8", "9">>

DigitVal(ch) == (CHOOSE i \in 1..10 : DigitSeq[i] = ch) - 1

RECURSIVE IntUpTo(_, _)
\* the number the first n digits of s write
IntUpTo(s, n) == IF n = 0 THEN 0 ELSE 10 * IntUpTo(s, n - 1) + DigitVal(s[n])

IntOf(s) == IntUpTo(s, Len(s))

RECURSIVE IntStr(_)
IntStr(n) == IF n < 10 THEN <<DigitSeq[n + 1]>> ELSE IntStr(n \div 10) \o <<DigitSeq[(n % 10) + 1]>>

DotAt(s) == {i \in 1..Len(s) : s[i] = "."}

\* t around its dot: <<integer part, fractional part, number of dots>>
SplitDot(t) ==
    IF DotAt(t) = {} THEN <<t, <<>>, 0>>
    ELSE IF Cardinality(DotAt(t)) > 1 THEN <<t, <<>>, 2>>
    ELSE LET d == CHOOSE i \in DotAt(t) : TRUE
         IN  <<SubSeq(t, 1, d - 1), SubSeq(t, d + 1, Len(t)), 1>>

\* float(s), in cents: the set holding the value, or the empty set when float(s)
\* raises.  The literals read are the unsigned decimal ones; the price inputs of the
\* model carry at most two fractional digits, so a value is a whole number of cents.
FloatOf(s) ==
    {100 * IntOf(q[1]) + (IF Len(q[2]) = 1 THEN 10 * IntOf(q[2]) ELSE IntOf(q[2])) :
        q \in {p \in {SplitDot(t) : t \in {Strip(s)}} :
                  /\ p[3] <= 1
                  /\ p[1] \o p[2] # <<>>
                  /\ \A i \in 1..Len(p[1]) : IsDigitCh(p[1][i])
                  /\ \A i \in 1..Len(p[2]) : IsDigitCh(p[2][i])
                  /\ Len(p[2]) <= 2}}

\* f"{p:.2f}" of a non-negative amount given in cents
Fixed2(cents) ==
    IntStr(cents \div 100) \o <<".">> \o <<DigitSeq[((cents % 100) \div 10) + 1], DigitSeq[(cents % 10) + 1]>>

\* format_price(price_raw)
format_price(price_raw) ==
    CASE price_raw.t = "none" -> <<>>
      [] price_raw.t = "num"  -> Fixed2(price_raw.cents)
      [] price_raw.t = "str"  ->
            IF price_raw.s = <<>> THEN <<>>
            ELSE IF FloatOf(price_raw.s) # {} THEN Fixed2(CHOOSE p \in FloatOf(price_raw.s) : TRUE)
            ELSE price_raw.s                      \* except Exception: str(price_raw)

-----------------------------------------------------------------------------
(* fetch_stock_name_from_eastmoney *)

\* the guard of the first return: a request is issued only past it
FetchIssuesRequest(c) == ~(c = <<>> \/ Len(c) # 6 \/ ~IsDigitStr(c))

\* market: "1" for a code starting with 6, "0" for every other code
Market(c) == IF c[1] = "6" THEN "1" ELSE "0"

Secid(c) == <<Market(c), ".">> \o c

NoCall == [kind |-> "none"]

\* requests.get(url, params=params): the timeout argument left out
LookupCall_NoTimeout(c) == [kind |-> "lookup", secid |-> Secid(c), fields |-> "f58", timed |-> FALSE]

\* requests.get(url, params=params, timeout=2)
LookupCall(c) == [kind |-> "lookup", secid |-> Secid(c), fields |-> "f58", timed |-> TRUE]

NAME_A == <<"W", "X">>
NAME_B == <<"P", "A">>

NoReply == [kind |-> "none"]

\* What requests.get can give the lookup (the timeout is LookupTimeout's).
\* shape: what resp.json() yields; data: the "data" member; f58: data's "f58" member.
JsonReplies ==
    {[kind |-> "http", status |-> 200, shape |-> "invalid", data |-> "none", f58 |-> None],
     [kind |-> "http", status |-> 200, shape |-> "array",   data |-> "none", f58 |-> None],
     [kind |-> "http", status |-> 200, shape |-> "object",  data |-> "null", f58 |-> None],
     [kind |-> "http", status |-> 200, shape |-> "object",  data |-> "dict", f58 |-> None],
     [kind |-> "http", status |-> 200, shape |-> "object",  data |-> "dict", f58 |-> Str(<<>>)],
     [kind |-> "http", status |-> 200, shape |-> "object",  data |-> "dict", f58 |-> Str(NAME_A)],
     [kind |-> "http", status |-> 200, shape |-> "object",  data |-> "dict", f58 |-> Str(NAME_B)],
     [kind |-> "http", status |-> 200, shape |-> "object",  data |-> "dict", f58 |-> PyInt(12)]}

LookupReplies ==
    {[kind |-> "exception"],
     [kind |-> "http", status |-> 500, shape |-> "invalid", data |-> "none", f58 |-> None]}
    \cup JsonReplies

TimedOut == [kind |-> "timeout"]

\* The value fetch_stock_name_from_eastmoney returns once requests.get gave o
\* (o is TimedOut when requests.get raised Timeout).
FetchResult(o) ==
    IF o.kind \in {"exception", "timeout"} THEN Str(<<>>)      \* except Exception
    ELSE IF o.status # 200 THEN Str(<<>>)
    ELSE IF o.shape = "invalid" THEN Str(<<>>)                  \* resp.json() raises
    ELSE IF o.shape = "array" THEN Str(<<>>)                    \* j.get raises
    ELSE IF o.data # "dict" THEN Str(<<>>)                      \* j.get("data") or {}
    ELSE IF Truthy(o.f58) THEN o.f58 ELSE Str(<<>>)             \* data.get("f58") or ""

\* str(v) as an f-string renders it
Render(v) == CASE v.t = "none" -> <<"N", "o", "n", "e">>
               [] v.t = "str"  -> v.s
               [] v.t = "int"  -> IntStr(v.n)

\* build_name_code with "name_code = raw_ticker" in the last branch
ComposeLabel_NoPlaceholder(raw_ticker, c, nm) ==
    IF Truthy(nm) /\ c # <<>> THEN Render(nm) \o <<" ">> \o c
    ELSE IF c # <<>> THEN c
    ELSE raw_ticker

\* build_name_code: the label, given raw_ticker, code and name
ComposeLabel(raw_ticker, c, nm) ==
    IF Truthy(nm) /\ c # <<>> THEN Render(nm) \o <<" ">> \o c
    ELSE IF c # <<>> THEN c
    ELSE IF raw_ticker # <<>> THEN raw_ticker ELSE <<"U", "n", "k", "n", "o", "w", "n">>

-----------------------------------------------------------------------------
(* send_bark *)

\* urllib.parse.quote of one character: letters, digits and "_.-~/" are kept, every
\* other character becomes "%" and its UTF-8 bytes in hex (a non-ASCII token: "%" and
\* the token).
QuoteCh(ch) ==
    CASE ch = " " -> <<"%", "2", "0">>
      [] ch = ":" -> <<"%", "3", "A">>
      [] ch = "|" -> <<"%", "7", "C">>
      [] ch \in {"GREEN", "RED", "BOLD_B", "BOLD_S", "TIME", "PERIOD", "STRATEGY",
                 "SIGNAL", "TEST_PUSH"} -> <<"%", ch>>
      [] OTHER -> <<ch>>

RECURSIVE Quote(_)
Quote(s) == IF s = <<>> THEN <<>> ELSE QuoteCh(Head(s)) \o Quote(Tail(s))

\* os.environ.get("BARK_SERVER", "https://api.day.app").rstrip("/"), with the variable unset
BARK_SERVER == "https://api.day.app"

\* requests.get(bark_url, params=params, timeout=3)
BarkCall(key, t, b, group) ==
    [kind |-> "bark", server |-> BARK_SERVER, key |-> key, title |-> Quote(t), body |-> Quote(b),
     group |-> group, timed |-> TRUE]

\* What requests.get can give send_bark (the timeout is BarkTimeout's).
BarkReplies ==
    {[kind |-> "exception"],
     [kind |-> "http", status |-> 200],
     [kind |-> "http", status |-> 400]}

NoResult == [t |-> "none"]

\* send_bark's return value when BARK_KEY is not set
KeyNotSet == [ok |-> FALSE, error |-> "BARK_KEY not set"]

\* send_bark with "ok": True for every answer of the gateway
BarkResult_StatusUnchecked(o) ==
    IF o.kind = "http"
    THEN [ok |-> TRUE, status_code |-> o.status, text |-> "resp.text"]
    ELSE [ok |-> FALSE, error |-> IF o.kind = "timeout" THEN "ReadTimeout" ELSE "ConnectionError"]

\* send_bark's return value once requests.get gave o
BarkResult(o) ==
    IF o.kind = "http"
    THEN [ok |-> (o.status = 200), status_code |-> o.status, text |-> "resp.text"]
    ELSE [ok |-> FALSE, error |-> IF o.kind = "timeout" THEN "ReadTimeout" ELSE "ConnectionError"]

-----------------------------------------------------------------------------
(* the handlers *)

\* d.get(key, default): the member, or the default when the key is missing
Get(v, default) == IF v = None THEN default ELSE v

T_000559 == <<"0", "0", "0", "5", "5", "9">>

\* raw_ticker of the request: data.get("ticker", "") / request.args.get("code", "000559")
RawTicker(r) ==
    IF r.route = "test" THEN Get(r.ticker, Str(T_000559)).s ELSE Get(r.ticker, Str(<<>>)).s

\* side of the request, uppercased
Side(r) ==
    IF r.route = "test" THEN Upper(Get(r.side, Str(<<"B", "U", "Y">>)).s)
    ELSE Upper(Render(Get(r.side, Str(<<>>))))

PriceRaw(r) == Get(r.price, Str(<<>>))

\* the title with the price left out of the BUY and SELL branches
Title_NoPrice(side, label, price) ==
    IF side = <<"B", "U", "Y">> THEN <<"GREEN", " ", "BOLD_B">>
    ELSE IF side = <<"S", "E", "L", "L">> THEN <<"RED", " ", "BOLD_S">>
    ELSE label \o <<" ">> \o price

\* the title of the notification
Title(side, label, price) ==
    IF side = <<"B", "U", "Y">> THEN <<"GREEN", " ", "BOLD_B">> \o price
    ELSE IF side = <<"S", "E", "L", "L">> THEN <<"RED", " ", "BOLD_S">> \o price
    ELSE label \o <<" ">> \o price

RECURSIVE Join(_)
\* " | ".join(parts)
Join(parts) ==
    IF parts = <<>> THEN <<>>
    ELSE IF Len(parts) = 1 THEN parts[1]
    ELSE parts[1] \o <<" ", "|", " ">> \o Join(Tail(parts))

\* the body of the notification
Body(r) ==
    IF r.route = "test" THEN <<"TEST_PUSH">>
    ELSE LET time_text == Get(r.time, Str(<<>>)).s
             timeframe == Get(r.timeframe, Str(<<>>)).s
             strategy  == Get(r.strategy, Str(<<>>)).s
             parts == (IF time_text # <<>> THEN <<<<"TIME">> \o time_text>> ELSE <<>>)
                   \o (IF timeframe # <<>> THEN <<<<"PERIOD">> \o timeframe>> ELSE <<>>)
                   \o (IF strategy # <<>> THEN <<<<"STRATEGY">> \o strategy>> ELSE <<>>)
         IN  IF parts # <<>> THEN Join(parts) ELSE <<"SIGNAL">>

Group(r) == IF r.route = "test" THEN "TV-TEST" ELSE "TV"

NoResponse == [http |-> 0]

\* the jsonify(...) the handler returns
Reply(r, c, label, price, t, b, res) ==
    IF r.route = "test"
    THEN [http |-> 200, ticker |-> RawTicker(r), code |-> c, name_code |-> label,
          side |-> Side(r), price |-> price, title |-> t, bark_result |-> res]
    ELSE [http |-> 200, ok |-> TRUE, ticker |-> RawTicker(r), code |-> c,
          name_code |-> label, side |-> Side(r), price |-> price, title |-> t,
          body |-> b, bark_result |-> res]

\* send_bark without the BARK_KEY check
SendBark_NoKeyCheck(r, c, label, price, t, b, sent) ==
    /\ result' = NoResult
    /\ response' = NoResponse
    /\ net' = BarkCall(Render(BARK_KEY), t, b, Group(r))
    /\ barkCalls' = sent + 1
    /\ pc' = "bark_wait"

\* send_bark issuing the request a second time
SendBark_Retry(r, c, label, price, t, b, sent) ==
    IF ~Truthy(BARK_KEY)
    THEN /\ result' = KeyNotSet
         /\ response' = Reply(r, c, label, price, t, b, KeyNotSet)
         /\ net' = NoCall
         /\ barkCalls' = sent
         /\ pc' = "done"
    ELSE /\ result' = NoResult
         /\ response' = NoResponse
         /\ net' = BarkCall(Render(BARK_KEY), t, b, Group(r))
         /\ barkCalls' = sent + 2
         /\ pc' = "bark_wait"

\* send_bark(title, body, group) and the return of the handler, sent being the
\* deliveries this request has attempted so far: with no key the handler returns at
\* once, otherwise it waits for the gateway.
SendBark(r, c, label, price, t, b, sent) ==
    IF ~Truthy(BARK_KEY)
    THEN /\ result' = KeyNotSet
         /\ response' = Reply(r, c, label, price, t, b, KeyNotSet)
         /\ net' = NoCall
         /\ barkCalls' = sent
         /\ pc' = "done"
    ELSE /\ result' = NoResult
         /\ response' = NoResponse
         /\ net' = BarkCall(Render(BARK_KEY), t, b, Group(r))
         /\ barkCalls' = sent + 1
         /\ pc' = "bark_wait"

\* The handler from the return of fetch_stock_name_from_eastmoney (nm) on:
\* the rest of build_name_code, format_price, the title, the body and send_bark.
AfterName(r, c, nm, sent) ==
    \E label \in {ComposeLabel(RawTicker(r), c, nm)}, price \in {format_price(PriceRaw(r))} :
        \E t \in {Title(Side(r), label, price)}, b \in {Body(r)} :
            /\ name' = nm
            /\ name_code' = label
            /\ price_text' = price
            /\ title' = t
            /\ body' = b
            /\ SendBark(r, c, label, price, t, b, sent)

\* The successful remote resolution of the handler that has just returned, if it
\* made one; else the one remembered.
Resolution ==
    IF pc = "done" /\ lookupCalls > 0 /\ Truthy(name)
    THEN [code |-> code, name |-> name]
    ELSE resolved

NoResolution == [code |-> <<>>, name |-> Str(<<>>)]

\* A handler, started on request r, runs to its first outbound call or to its return.
Handle(r) ==
    /\ req' = r
    /\ lookup_resp' = NoReply
    /\ bark_resp' = NoReply
    /\ UNCHANGED <<BARK_KEY, resolved, nvars>>
    /\ IF r.kind = "object"
       THEN LET c == normalize_ticker(RawTicker(r))
            IN  /\ code' = c
                /\ IF c # <<>> /\ FetchIssuesRequest(c)
                   THEN /\ net' = LookupCall(c)
                        /\ lookupCalls' = 1
                        /\ barkCalls' = 0
                        /\ pc' = "lookup_wait"
                        /\ name' = Str(<<>>)
                        /\ name_code' = <<>>
                        /\ price_text' = <<>>
                        /\ title' = <<>>
                        /\ body' = <<>>
                        /\ result' = NoResult
                        /\ response' = NoResponse
                   ELSE /\ lookupCalls' = 0
                        /\ AfterName(r, c, Str(<<>>), 0)
       ELSE \* the body is not a JSON object: no call is made
            /\ code' = <<>>
            /\ name' = Str(<<>>)
            /\ name_code' = <<>>
            /\ price_text' = <<>>
            /\ title' = <<>>
            /\ body' = <<>>
            /\ net' = NoCall
            /\ lookupCalls' = 0
            /\ barkCalls' = 0
            /\ result' = NoResult
            /\ pc' = "done"
            /\ response' = IF r.kind = "invalid"
                           THEN [http |-> 400, ok |-> FALSE, error |-> "Invalid JSON"]
                           ELSE [http |-> 500]      \* data.get raises AttributeError

\* The inputs of the model.
TickerInputs ==
    {None,
     Str(T_000559),
     Str(<<"S", "H", "S", "E", ":", "6", "0", "0", "0", "0", "0">>),
     Str(<<"9", "9", "9", "9", "9", "9">>),
     Str(<<"1", "2", "3", "4", "5">>),
     Str(<<"a", "b", "c">>)}

\* "side" of the JSON body; "side" of the query string
SideInputs == {None, Str(<<"b", "u", "y">>), Str(<<"S", "E", "L", "L">>)}

SideArgs == {None, Str(<<"x">>)}

\* "price" of the JSON body; "price" of the query string
PriceInputs == {None, Num(1182), Str(<<"N", "/", "A">>)}

PriceArgs == {None, Str(<<"1", "1", ".", "8">>)}

Absent == [time |-> None, timeframe |-> None, strategy |-> None]

MetaInputs == {Absent, [time |-> Str(<<"T">>), timeframe |-> Str(<<"5">>), strategy |-> Str(<<"S">>)]}

WebhookRequest(kind, ticker, side, price, meta) ==
    [route |-> "tv-webhook", kind |-> kind, ticker |-> ticker, side |-> side, price |-> price,
     time |-> meta.time, timeframe |-> meta.timeframe, strategy |-> meta.strategy]

TestRequest(ticker, side, price) ==
    [route |-> "test", kind |-> "object", ticker |-> ticker, side |-> side, price |-> price,
     time |-> None, timeframe |-> None, strategy |-> None]

NoRequest == WebhookRequest("none", None, None, None, Absent)

\* POST /tv-webhook
tv_webhook ==
    /\ pc = "idle"
    /\ \/ \E kind \in {"invalid", "nonobject"} :
              Handle(WebhookRequest(kind, None, None, None, Absent))
       \/ \E ticker \in TickerInputs, side \in SideInputs, price \in PriceInputs, meta \in MetaInputs :
              Handle(WebhookRequest("object", ticker, side, price, meta))

\* GET /test
test ==
    /\ pc = "idle"
    /\ \E ticker \in TickerInputs, side \in SideArgs, price \in PriceArgs :
          Handle(TestRequest(ticker, side, price))

\* requests.get of the lookup returns or raises (not Timeout): the handler goes on.
LookupReply ==
    /\ pc = "lookup_wait"
    /\ \E o \in LookupReplies :
          /\ lookup_resp' = o
          /\ AfterName(req, code, FetchResult(o), barkCalls)
    /\ UNCHANGED <<BARK_KEY, req, code, bark_resp, lookupCalls, resolved, nvars>>

\* timeout=2 expires: requests.get raises Timeout, caught by except Exception.
LookupTimeout ==
    /\ pc = "lookup_wait"
    /\ net.timed
    /\ lookup_resp' = TimedOut
    /\ AfterName(req, code, FetchResult(TimedOut), barkCalls)
    /\ UNCHANGED <<BARK_KEY, req, code, bark_resp, lookupCalls, resolved, nvars>>

\* requests.get gave send_bark o: send_bark returns and the handler returns its
\* jsonify(...).
Return(o) ==
    /\ bark_resp' = o
    /\ result' = BarkResult(o)
    /\ response' = Reply(req, code, name_code, price_text, title, body, BarkResult(o))
    /\ net' = NoCall
    /\ pc' = "done"
    /\ UNCHANGED <<BARK_KEY, req, code, name, name_code, price_text, title, body,
                   lookup_resp, lookupCalls, barkCalls, resolved, nvars>>

\* requests.get of the delivery returns or raises (not Timeout).
BarkReply ==
    /\ pc = "bark_wait"
    /\ \E o \in BarkReplies : Return(o)

\* timeout=3 expires: requests.get raises Timeout, caught by except Exception.
BarkTimeout ==
    /\ pc = "bark_wait"
    /\ net.timed
    /\ Return(TimedOut)

\* The response is sent and the handler's frame is gone; the next request can start.
Finish ==
    /\ pc = "done"
    /\ pc' = "idle"
    /\ resolved' = Resolution
    /\ req' = NoRequest
    /\ code' = <<>>
    /\ name' = Str(<<>>)
    /\ name_code' = <<>>
    /\ price_text' = <<>>
    /\ title' = <<>>
    /\ body' = <<>>
    /\ net' = NoCall
    /\ lookup_resp' = NoReply
    /\ bark_resp' = NoReply
    /\ result' = NoResult
    /\ response' = NoResponse
    /\ lookupCalls' = 0
    /\ barkCalls' = 0
    /\ UNCHANGED <<BARK_KEY, nvars>>

KeyInputs == {None, Str(<<>>), Str(<<"k">>)}

\* No handler is running.
Idle ==
    /\ pc = "idle"
    /\ req = NoRequest
    /\ code = <<>>
    /\ name = Str(<<>>)
    /\ name_code = <<>>
    /\ price_text = <<>>
    /\ title = <<>>
    /\ body = <<>>
    /\ net = NoCall
    /\ lookup_resp = NoReply
    /\ bark_resp = NoReply
    /\ result = NoResult
    /\ response = NoResponse
    /\ lookupCalls = 0
    /\ barkCalls = 0
    /\ resolved = NoResolution

Init ==
    /\ BARK_KEY \in KeyInputs
    /\ Idle
    /\ nraw = <<>>
    /\ ncode = <<>>
    /\ npc = "off"

Next ==
    \/ tv_webhook
    \/ test
    \/ LookupReply
    \/ LookupTimeout
    \/ BarkReply
    \/ BarkTimeout
    \/ Finish

Spec == Init /\ [][Next]_vars

\* The timeouts are the runtime's: a call still waiting when its timeout expires is
\* ended.  Whether a remote service ever answers is not assumed.
FairSpec == Spec /\ WF_vars(LookupTimeout) /\ WF_vars(BarkTimeout)

-----------------------------------------------------------------------------
(* normalize_ticker on its own: every raw ticker made of a prefix, a run of at most *)
(* MaxLen characters and a suffix.                                                  *)

NormPrefixes == {<<>>, <<"S", "Z", "S", "E", ":">>, <<"s", "h">>, <<" ">>}

NormSuffixes == {<<>>, SUF_SZ, <<".", "s", "h">>, SUF_CSI}

NormChars == {"0", "6", "x"}

NormRuns == UNION {[1..n -> NormChars] : n \in 0..MaxLen}

NormInputs == {p \o b \o x : p \in NormPrefixes, b \in NormRuns, x \in NormSuffixes}

NormInit ==
    /\ BARK_KEY = None
    /\ Idle
    /\ nraw \in NormInputs
    /\ ncode = <<>>
    /\ npc = "called"

Normalize ==
    /\ npc = "called"
    /\ ncode' = normalize_ticker(nraw)
    /\ npc' = "returned"
    /\ UNCHANGED <<hvars, nraw>>

NormNext == Normalize

NormSpec == NormInit /\ [][NormNext]_vars

-----------------------------------------------------------------------------
(* The claims *)

BUY == <<"B", "U", "Y">>

\* sub occurs in s
Contains(s, sub) ==
    \E i \in 1..(Len(s) - Len(sub) + 1) : SubSeq(s, i, i + Len(sub) - 1) = sub

SixDigits(c) == Len(c) = 6 /\ \A i \in 1..Len(c) : c[i] \in Digits

\* the first run of six consecutive digits of s, or the empty string
FirstSixRun(s) ==
    LET starts == {i \in 1..(Len(s) - 5) : SixDigits(SubSeq(s, i, i + 5))}
    IN  IF starts = {} THEN <<>>
        ELSE LET first == CHOOSE i \in starts : \A j \in starts : i <= j
             IN  SubSeq(s, first, first + 5)

\* leading digit 6: Shanghai; 0 or 3: Shenzhen; anything else, or not six digits: Unknown
InferExchange(c) ==
    IF ~SixDigits(c) THEN "Unknown"
    ELSE IF c[1] = "6" THEN "Shanghai"
    ELSE IF c[1] \in {"0", "3"} THEN "Shenzhen"
    ELSE "Unknown"

\* the handler is past name resolution
Named == pc \in {"bark_wait", "done"} /\ req.kind = "object"

\* the handler has returned its normal response
Returned == pc = "done" /\ response.http = 200

\* C1: normalize_ticker returns the empty string or exactly six digits: the first run
\* of six consecutive digits of the uppercased input after its last colon and without
\* its recognised dot-suffix, and the empty string when there is no such run.
C1_NormalizeSixDigitsOrEmpty ==
    npc = "returned" =>
        /\ ncode = <<>> \/ SixDigits(ncode)
        /\ ncode = FirstSixRun(DropSuffixes(AfterLastColon(Upper(nraw))))

\* C2: no lookup request is issued, and the name is empty, when the normalized code is
\* empty or its exchange is Unknown.
C2_NoLookupWhenUnknown ==
    (pc # "idle" /\ req.kind = "object" /\ (code = <<>> \/ InferExchange(code) = "Unknown")) =>
        /\ lookupCalls = 0
        /\ net.kind # "lookup"
        /\ ~Truthy(name)

\* C3: once an earlier request has resolved a code through the remote lookup, a later
\* resolution of the same code makes no lookup call and returns the same name.
C3_CachedAfterResolution ==
    (pc # "idle" /\ resolved.code # <<>> /\ code = resolved.code) =>
        /\ lookupCalls = 0
        /\ Named => name = resolved.name

\* C4: with BARK_KEY absent no delivery request is ever sent, and the delivery result
\* reports a configuration error: ok is false and an error value is given.
C4_NoKeyNoDelivery ==
    ~Truthy(BARK_KEY) =>
        /\ barkCalls = 0
        /\ net.kind # "bark"
        /\ Returned =>
              /\ response.bark_result.ok = FALSE
              /\ "error" \in DOMAIN response.bark_result
              /\ response.bark_result.error = "BARK_KEY not set"

C4_Witness == Returned /\ BARK_KEY = None /\ req.route = "tv-webhook" /\ lookupCalls = 1

\* the lookup failed: transport error or timeout, non-success status, or a response
\* whose name field is missing or malformed
FailedLookup(o) ==
    \/ o.kind \in {"exception", "timeout"}
    \/ o.status # 200
    \/ o.shape # "object"
    \/ o.data # "dict"
    \/ o.f58.t # "str"

\* C5: a failed name lookup yields an empty name and never fails the request: the label
\* is the code alone, delivery is still attempted and the normal response is returned.
C5_FailedLookupDegrades ==
    (Named /\ lookup_resp # NoReply /\ FailedLookup(lookup_resp)) =>
        /\ ~Truthy(name)
        /\ name_code = code
        /\ Truthy(BARK_KEY) => barkCalls = 1
        /\ pc = "done" => response.http = 200

\* C6 as claimed: the lookup and the delivery are each attempted exactly once per
\* inbound request.
C6_ExactlyOncePerRequest ==
    Returned => lookupCalls = 1 /\ barkCalls = 1

\* C6 as amended: no call is retried.  Per request the lookup is attempted at most
\* once, exactly once when the normalized code is six digits and not at all otherwise;
\* the delivery at most once, exactly once when BARK_KEY is set and the body is a JSON
\* object, and not at all otherwise.
C6_AtMostOncePerRequest ==
    /\ lookupCalls <= 1
    /\ barkCalls <= 1
    /\ Returned =>
          /\ lookupCalls = (IF SixDigits(code) THEN 1 ELSE 0)
          /\ barkCalls = (IF Truthy(BARK_KEY) THEN 1 ELSE 0)
    /\ (pc = "done" /\ ~Returned) => (lookupCalls = 0 /\ barkCalls = 0)

C6_Witness ==
    /\ Returned
    /\ lookupCalls = 1
    /\ barkCalls = 1
    /\ lookup_resp = TimedOut
    /\ bark_resp = TimedOut

\* C7: the label is "<name> <code>" when name and code are both non-empty, the code
\* when only the code is non-empty, else the raw ticker, or "Unknown" when the raw
\* ticker is empty; it is never empty.
C7_LabelComposition ==
    Named =>
        /\ name_code # <<>>
        /\ (Truthy(name) /\ code # <<>>) => name_code = Render(name) \o <<" ">> \o code
        /\ (~Truthy(name) /\ code # <<>>) => name_code = code
        /\ (code = <<>> /\ RawTicker(req) # <<>>) => name_code = RawTicker(req)
        /\ (code = <<>> /\ RawTicker(req) = <<>>) => name_code = <<"U", "n", "k", "n", "o", "w", "n">>
        /\ Returned => response.name_code = name_code

C7_Witness == Returned /\ name = Str(NAME_A) /\ code = T_000559

\* C8: every handler invocation eventually returns a response, whether or not the
\* quote service and the gateway ever answer.
C8_HandlerReturns == (pc # "idle") ~> (pc = "done" /\ response # NoResponse)

C8_Witness == pc = "done" /\ lookup_resp = TimedOut /\ bark_resp = TimedOut /\ response.http = 200

\* the delivery failed: transport exception, timeout or a status other than 200
FailedDelivery(o) == o.kind \in {"exception", "timeout"} \/ o.status # 200

\* C9: a failed delivery is reported as a result whose ok is false, with a status or an
\* error detail, and the handler still returns its response carrying that result.
C9_DeliveryFailureReported ==
    (pc = "done" /\ bark_resp # NoReply /\ FailedDelivery(bark_resp)) =>
        /\ result.ok = FALSE
        /\ "status_code" \in DOMAIN result \/ "error" \in DOMAIN result
        /\ response.http = 200
        /\ response.bark_result = result

C9_Witness == pc = "done" /\ bark_resp = [kind |-> "http", status |-> 400] /\ response.http = 200

\* a BUY request whose ticker resolved to a name and a code, with a price, delivered
BuyResolvedPriced ==
    /\ Named
    /\ Side(req) = BUY
    /\ Truthy(name)
    /\ code # <<>>
    /\ price_text # <<>>
    /\ barkCalls = 1

\* C10 as claimed: the title of such a request contains the label "<name> <code>" and
\* the formatted price.
C10_BuyTitleHasLabelAndPrice ==
    BuyResolvedPriced =>
        /\ Contains(title, Render(name) \o <<" ">> \o code)
        /\ Contains(title, price_text)

\* C10 as amended: the title of such a request is the BUY marker followed by the
\* formatted price, so it contains the price; the label "<name> <code>" is no part of
\* the title's composition and is returned in the response's name_code.
C10_BuyTitleIsMarkerAndPrice ==
    BuyResolvedPriced =>
        /\ title = <<"GREEN", " ", "BOLD_B">> \o price_text
        /\ Contains(title, price_text)
        /\ net.kind = "bark" => net.title = Quote(title)
        /\ Returned => response.name_code = Render(name) \o <<" ">> \o code

C10_Witness ==
    /\ BuyResolvedPriced
    /\ Returned
    /\ req.route = "tv-webhook"
    /\ name_code = NAME_A \o <<" ">> \o T_000559
    /\ price_text = <<"1", "1", ".", "8", "2">>

====
